---- MODULE Spec2Model ----
(***************************************************************************)
(* The debounced document validation of the YAML language server           *)
(* (src/src/shared/extensions/yamlServer.ts).                              *)
(*                                                                         *)
(* The server keeps one TextDocumentValidator.  A content-change event of  *)
(* a document calls triggerValidation, a close event calls                 *)
(* cleanPendingValidation and publishes an empty diagnostics list.  When a *)
(* timer of the validator fires, the validation callback of lines 113-116  *)
(* is invoked: it awaits yamlService.doValidation and then publishes the   *)
(* diagnostics of the snapshot it was given.                               *)
(*                                                                         *)
(* The class TextDocumentValidator (shared/languageServer/utils/validator) *)
(* is not among the source files; triggerValidation, cleanPendingValidation*)
(* and the body of the timer are modelled from section 4.1 of the          *)
(* specification.  Everything else is translated from yamlServer.ts.       *)
(*                                                                         *)
(* The event loop is single threaded: every action below is one turn of    *)
(* it (one event handler, one timer callback, or one continuation of an    *)
(* awaited promise), run to completion.                                    *)
(***************************************************************************)
EXTENDS Integers, Sequences, FiniteSets, TLC

\* The documents of the editing session, by DocumentIdentity (document.uri).
Docs == {"a.yaml", "b.yaml"}

\* Bound: the number of triggerValidation calls of a run.
MaxTimers == 3

\* Bound: the clock stops here (milliseconds).
MaxTime == 400

\* The delay the server constructs its validator with.
ValidationDelayMs == 200

\* The granularity of the clock (milliseconds per Tick): two ticks per delay.
TickMs == ValidationDelayMs \div 2

\* Change events arrive up to here, so that every timer armed with a delay of at
\* most ValidationDelayMs comes due before the clock stops.
LastEventTime == MaxTime - ValidationDelayMs

VARIABLES
    now,            \* the clock of the event loop, in milliseconds
    delayMillis,    \* the delay the validator was constructed with
    version,        \* version[uri]: version of the latest snapshot of uri
    nextHandle,     \* the handle the next setTimeout returns
    timers,         \* the armed (unfired, uncancelled) timers of the host
    pending,        \* PendingValidation: uri -> handle, a partial map
    inflight,       \* callback invocations awaiting yamlService.doValidation
    diagnostics,    \* diagnostics[uri]: what was last published for uri
    unhandled,      \* rejected invocations, as logged (line 32), by the handle
                    \* of the invocation
    scheduleErrors, \* triggerValidation calls that threw a ScheduleError
    calls,          \* history: every invocation of the validation callback
    armed,          \* history: handle -> the snapshot its timer was armed for
    cancelled,      \* history: the handles given to clearTimeout
    lastOp,         \* history: the turn the event loop ran last
    closed,         \* history: the documents closed since their last change
    mode,           \* yaml.ts: which YamlExtension activateYamlExtension returned
    schemaMap,      \* yaml.ts: the Map from path string to schema Uri, as the
                    \* sequence of its entries in insertion order
    sent,           \* yaml.ts: the configuration notifications sent to the server
    schemaLog,      \* history: the assignSchema and removeSchema calls made
    configured,     \* yamlServer.ts: what yamlService.configure was last given
    received        \* history: the settings of the configuration change
                    \* handled last, if any

\* The state of the schema assignment (yaml.ts) and of the configuration of the
\* language service (yamlServer.ts:90-111).
yamlVars == <<mode, schemaMap, sent, schemaLog, configured, received>>

vars == <<now, delayMillis, version, nextHandle, timers, pending, inflight,
          diagnostics, unhandled, scheduleErrors, calls, armed, cancelled,
          lastOp, closed, yamlVars>>

Handles == 1..MaxTimers

\* A TextDocument snapshot as the validator sees it: its uri and version.
Snapshot(uri, ver) == [uri |-> uri, version |-> ver]

\* What connection.sendDiagnostics last sent for a document.
Unpublished == [published |-> FALSE, empty |-> TRUE, version |-> 0]
EmptyDiagnostics == [published |-> TRUE, empty |-> TRUE, version |-> 0]
DiagnosticsOf(doc) == [published |-> TRUE, empty |-> FALSE, version |-> doc.version]

Op(op, uri, h) == [op |-> op, uri |-> uri, h |-> h]

----------------------------------------------------------------------------
(* The host's timers.                                                      *)

\* setTimeout(callback, delay): arms a timer that is due `delay` from now.
\* The callback closes over the snapshot `doc` of the triggerValidation call.
setTimeout(tm, h, doc, due) == tm \cup {[h |-> h, doc |-> doc, due |-> due]}

\* clearTimeout(h): the timer h, if still armed, never fires.
clearTimeout(tm, h) == {t \in tm : t.h # h}

----------------------------------------------------------------------------
(* TextDocumentValidator, on the validator state                           *)
(* s = [pending, timers, cancelled].                                       *)

ValidatorState == [pending |-> pending, timers |-> timers, cancelled |-> cancelled]

RemoveEntry(p, uri) == [u \in DOMAIN p \ {uri} |-> p[u]]

PutEntry(p, uri, h) == [u \in DOMAIN p \cup {uri} |-> IF u = uri THEN h ELSE p[u]]

\* cleanPendingValidation(document): cancel the pending timer of the
\* document's identity and remove its entry; a no-op without an entry.
cleanPendingValidation(s, uri) ==
    IF uri \in DOMAIN s.pending
    THEN [pending   |-> RemoveEntry(s.pending, uri),
          timers    |-> clearTimeout(s.timers, s.pending[uri]),
          cancelled |-> s.cancelled \cup {s.pending[uri]}]
    ELSE s

\* triggerValidation without step 2: the new handle overwrites the entry and
\* the old timer stays armed.
triggerValidationNoCancel(s, doc, h, due) ==
    [pending   |-> PutEntry(s.pending, doc.uri, h),
     timers    |-> setTimeout(s.timers, h, doc, due),
     cancelled |-> s.cancelled]

\* triggerValidation(document): cancel the pending timer of the identity,
\* arm a new one for this snapshot, record its handle under the identity.
triggerValidation(s, doc, h, due) ==
    LET c == cleanPendingValidation(s, doc.uri)
    IN  [pending   |-> PutEntry(c.pending, doc.uri, h),
         timers    |-> setTimeout(c.timers, h, doc, due),
         cancelled |-> c.cancelled]

\* triggerValidation whose setTimeout throws (ScheduleError), retried until it
\* succeeds instead of surfacing the error.
triggerValidationRetries(s, doc, h, due) == triggerValidation(s, doc, h, due)

\* triggerValidation whose setTimeout throws (ScheduleError): the old timer was
\* cancelled, no timer is armed, no entry is recorded, the error is thrown.
triggerValidationArmFails(s, doc, h, due) == cleanPendingValidation(s, doc.uri)

\* A timer callback that leaves the fired entry in the pending map.
timerBodyKeepsEntry(p, t) == p

\* The first statement of the timer's callback: the fired entry is removed
\* before the validation callback is invoked.
timerBody(p, t) == RemoveEntry(p, t.doc.uri)

----------------------------------------------------------------------------
(* The validation callback of the server, yamlServer.ts:113-116.           *)

\* const diagnostics = await yamlService.doValidation(document, false):
\* the invocation starts the validation and suspends until it settles.
validateTextDocument(fl, h, doc) == fl \cup {[h |-> h, doc |-> doc]}

\* connection.sendDiagnostics({ uri: document.uri, diagnostics })
sendDiagnostics(dg, uri, d) == [dg EXCEPT ![uri] = d]

----------------------------------------------------------------------------
\* A stale snapshot: the document as it was before the change.
staleDocument(uri) == Snapshot(uri, version[uri])

\* change.document: the snapshot of the document after the change.
changeDocument(uri) == Snapshot(uri, version[uri] + 1)

----------------------------------------------------------------------------
(* Schema assignment, yaml.ts.  A string is the sequence of its characters, *)
(* a vscode.Uri the record of its scheme and its path.                      *)

\* Bound: the number of assignSchema and removeSchema calls of a run.
MaxSchemaCalls == 3

\* path.toString() of the documents a schema is assigned to.
PathKeys == {"file:///t1.yaml", "file:///t2.yaml"}

\* The schema Uris handed to assignSchema: a file with a space in its path, and
\* one of another scheme.
SchemaUris ==
    {[scheme |-> "file",  path |-> <<"/", "m", " ", "s">>],
     [scheme |-> "https", path |-> <<"/", "s">>]}

\* The schema argument: a Uri, or a function that returns one.
SchemaArgs == [lazy : BOOLEAN, uri : SchemaUris]

\* import { AWS_SCHEME } from '../constants'
AWS_SCHEME == "aws"

\* What activateYamlExtension returned: the language-client object
\* (!isCloud9()) or the one backed by the yaml extension.
Modes == {"languageClient", "yamlExtension"}

\* path.with({ scheme })
applyScheme(scheme, path) == [path EXCEPT !.scheme = scheme]

\* schema instanceof Function ? schema() : schema
evaluate(schema) == IF schema.lazy THEN schema.uri ELSE schema.uri

\* Uri.fsPath: the file system path of a Uri, whatever its scheme.
fsPath(u) == u.path

\* encodeURI of one character: a space and a percent sign are escaped.
encodeChar(c) ==
    IF c = " " THEN <<"%", "2", "0">>
    ELSE IF c = "%" THEN <<"%", "2", "5">>
    ELSE <<c>>

RECURSIVE encodeURI(_)
encodeURI(str) ==
    IF str = << >> THEN << >> ELSE encodeChar(Head(str)) \o encodeURI(Tail(str))

\* 'file://' + encodeURI(schemaUri.fsPath)
fileUri(u) == <<"f", "i", "l", "e", ":", "/", "/">> \o encodeURI(fsPath(u))

\* Map.prototype.get: the value of the key, if any (a set of at most one).
mapGet(m, key) == {m[i].value : i \in {j \in DOMAIN m : m[j].key = key}}

\* A delete that drops the entry added last, whatever its key.
mapDeleteLast(m, key) ==
    IF m = << >> THEN m ELSE SubSeq(m, 1, Len(m) - 1)

\* Map.prototype.delete: the entry of the key is dropped, the order kept.
mapDelete(m, key) == SelectSeq(m, LAMBDA e : e.key # key)

\* Map.prototype.set: the value of an existing key is replaced in place, a new
\* key is added last.
mapSet(m, key, value) ==
    IF \E i \in DOMAIN m : m[i].key = key
    THEN [i \in DOMAIN m |-> IF m[i].key = key
                             THEN [key |-> key, value |-> value] ELSE m[i]]
    ELSE Append(m, [key |-> key, value |-> value])

\* The schemaSettings that onSettingsChanged builds from the map.
schemaSettings(m) ==
    [i \in DOMAIN m |-> [fileMatch |-> <<m[i].key>>, uri |-> fileUri(m[i].value)]]

\* onSettingsChanged(client, schemaMap): the notification sent carries
\* settings.aws.yaml.schemas and nothing else.
onSettingsChanged(out, m) == Append(out, schemaSettings(m))

\* getSchema: path => schemaMap.get(path.toString())
getSchema(key) == mapGet(schemaMap, key)

----------------------------------------------------------------------------
(* Configuration of the language service, yamlServer.ts:73-111.  An         *)
(* optional value is the set of at most one value.                          *)

Absent == {}

\* change.settings: aws and aws.yaml may be missing, and so may each of
\* customTags and schemas; a list that is supplied may be empty.
TagLists == {<< >>, <<"!Ref">>}

SchemaLists == {<< >>, <<[fileMatch |-> <<"file:///t1.yaml">>,
                         uri |-> <<"f", "i", "l", "e", ":", "/", "/", "/", "s">>]>>}

SettingsInputs ==
    {[aws |-> FALSE, yaml |-> FALSE, customTags |-> Absent, schemas |-> Absent],
     [aws |-> TRUE,  yaml |-> FALSE, customTags |-> Absent, schemas |-> Absent]}
    \cup {[aws |-> TRUE, yaml |-> TRUE, customTags |-> ct, schemas |-> sc] :
              ct \in {Absent} \cup {{l} : l \in TagLists},
              sc \in {Absent} \cup {{l} : l \in SchemaLists}}

\* !x of an optional array: true exactly when it is undefined (an array, empty
\* or not, is truthy).
Not(x) == x = Absent

\* const customTags = !settings.aws?.yaml?.customTags ? settings.aws?.yaml?.customTags : []
customTagsOf(settings) ==
    IF Not(settings.customTags) THEN settings.customTags ELSE {<< >>}

\* const schemas = !settings.aws?.yaml?.schemas ? [] : settings.aws?.yaml?.schemas
schemasOf(settings) ==
    IF Not(settings.schemas) THEN {<< >>} ELSE settings.schemas

\* yamlService.configure({ ..., customTags: [], schemas: [] }) of lines 90-96
InitialConfiguration == [customTags |-> {<< >>}, schemas |-> {<< >>}]

YamlInit ==
    /\ schemaMap = << >>
    /\ sent = << >>
    /\ schemaLog = << >>
    /\ configured = InitialConfiguration
    /\ received = {}

Init0 ==
    /\ now = 0
    /\ version = [u \in Docs |-> 0]
    /\ nextHandle = 1
    /\ timers = {}
    /\ pending = << >>
    /\ inflight = {}
    /\ diagnostics = [u \in Docs |-> Unpublished]
    /\ unhandled = {}
    /\ scheduleErrors = {}
    /\ calls = << >>
    /\ armed = << >>
    /\ cancelled = {}
    /\ lastOp = Op("init", "", 0)
    /\ closed = {}
    /\ YamlInit

Init == Init0 /\ delayMillis = ValidationDelayMs /\ mode = "languageClient"

\* A change handler whose validator runs the callback in line when its delay is
\* 0, instead of arming a timer.
OnDidChangeContentInline(uri) ==
    /\ nextHandle <= MaxTimers
    /\ now <= LastEventTime
    /\ LET doc == changeDocument(uri)
           c   == cleanPendingValidation(ValidatorState, uri)
           s   == triggerValidation(ValidatorState, doc, nextHandle, now + delayMillis)
       IN  IF delayMillis = 0
           THEN /\ pending' = c.pending
                /\ timers' = c.timers
                /\ cancelled' = c.cancelled
                /\ inflight' = validateTextDocument(inflight, nextHandle, doc)
                /\ calls' = Append(calls, [h |-> nextHandle, doc |-> doc,
                                           latest |-> doc.version])
           ELSE /\ pending' = s.pending
                /\ timers' = s.timers
                /\ cancelled' = s.cancelled
                /\ UNCHANGED <<inflight, calls>>
    /\ version' = [version EXCEPT ![uri] = @ + 1]
    /\ nextHandle' = nextHandle + 1
    /\ armed' = PutEntry(armed, nextHandle, changeDocument(uri))
    /\ lastOp' = Op("change", uri, nextHandle)
    /\ UNCHANGED <<now, delayMillis, diagnostics, unhandled, scheduleErrors>>
    /\ closed' = closed \ {uri}
    /\ UNCHANGED yamlVars

\* documents.onDidChangeContent(change => validator.triggerValidation(change.document))
OnDidChangeContent(uri) ==
    /\ nextHandle <= MaxTimers
    /\ now <= LastEventTime
    /\ LET doc == changeDocument(uri)
           s   == triggerValidation(ValidatorState, doc, nextHandle, now + delayMillis)
       IN  /\ pending' = s.pending
           /\ timers' = s.timers
           /\ cancelled' = s.cancelled
    /\ version' = [version EXCEPT ![uri] = @ + 1]
    /\ nextHandle' = nextHandle + 1
    /\ armed' = PutEntry(armed, nextHandle, changeDocument(uri))
    /\ lastOp' = Op("change", uri, nextHandle)
    /\ UNCHANGED <<now, delayMillis, inflight, diagnostics, unhandled,
                   scheduleErrors, calls>>
    /\ closed' = closed \ {uri}
    /\ UNCHANGED yamlVars

\* The change handler when arming the timer fails: triggerValidation throws,
\* the handler does not catch, and the error reaches the caller of the handler.
OnDidChangeContentArmFails(uri) ==
    /\ nextHandle <= MaxTimers
    /\ now <= LastEventTime
    /\ LET doc == changeDocument(uri)
           s   == triggerValidationArmFails(ValidatorState, doc, nextHandle,
                                            now + delayMillis)
       IN  /\ pending' = s.pending
           /\ timers' = s.timers
           /\ cancelled' = s.cancelled
           /\ scheduleErrors' = scheduleErrors \cup {[h |-> nextHandle, doc |-> doc]}
    /\ version' = [version EXCEPT ![uri] = @ + 1]
    /\ nextHandle' = nextHandle + 1
    /\ lastOp' = Op("armfail", uri, nextHandle)
    /\ UNCHANGED <<now, delayMillis, inflight, diagnostics, unhandled, calls,
                   armed>>
    /\ closed' = closed \ {uri}
    /\ UNCHANGED yamlVars

\* A close handler that only publishes the empty list and leaves the pending
\* validation alone.
OnDidCloseNoClean(uri) ==
    /\ diagnostics' = sendDiagnostics(diagnostics, uri, EmptyDiagnostics)
    /\ lastOp' = Op("close", uri, IF uri \in DOMAIN pending THEN pending[uri] ELSE 0)
    /\ UNCHANGED <<now, delayMillis, version, nextHandle, timers, pending,
                   cancelled, inflight, unhandled, scheduleErrors, calls, armed>>
    /\ closed' = closed \cup {uri}
    /\ UNCHANGED yamlVars

\* A close handler that cancels the pending validation of every document.
OnDidCloseAll(uri) ==
    /\ pending' = << >>
    /\ timers' = {}
    /\ cancelled' = cancelled \cup {pending[u] : u \in DOMAIN pending}
    /\ diagnostics' = sendDiagnostics(diagnostics, uri, EmptyDiagnostics)
    /\ lastOp' = Op("close", uri, IF uri \in DOMAIN pending THEN pending[uri] ELSE 0)
    /\ UNCHANGED <<now, delayMillis, version, nextHandle, inflight, unhandled,
                   scheduleErrors, calls, armed>>
    /\ closed' = closed \cup {uri}
    /\ UNCHANGED yamlVars

\* documents.onDidClose(event => { validator.cleanPendingValidation(event.document)
\*                                 connection.sendDiagnostics({ uri, diagnostics: [] }) })
OnDidClose(uri) ==
    /\ LET s == cleanPendingValidation(ValidatorState, uri)
       IN  /\ pending' = s.pending
           /\ timers' = s.timers
           /\ cancelled' = s.cancelled
    /\ diagnostics' = sendDiagnostics(diagnostics, uri, EmptyDiagnostics)
    /\ lastOp' = Op("close", uri, IF uri \in DOMAIN pending THEN pending[uri] ELSE 0)
    /\ UNCHANGED <<now, delayMillis, version, nextHandle, inflight, unhandled,
                   scheduleErrors, calls, armed>>
    /\ closed' = closed \cup {uri}
    /\ UNCHANGED yamlVars

\* A due timer fires: the host drops it, the validator removes the entry and
\* invokes the validation callback with the snapshot the timer closed over.
TimerFires(h) ==
    \E t \in timers :
        /\ t.h = h
        /\ t.due <= now
        /\ timers' = timers \ {t}
        /\ pending' = timerBody(pending, t)
        /\ inflight' = validateTextDocument(inflight, t.h, t.doc)
        /\ calls' = Append(calls, [h |-> t.h, doc |-> t.doc,
                                   latest |-> version[t.doc.uri]])
        /\ lastOp' = Op("fire", t.doc.uri, t.h)
        /\ UNCHANGED <<now, delayMillis, version, nextHandle, diagnostics,
                       unhandled, scheduleErrors, armed, cancelled>>
        /\ UNCHANGED <<closed, yamlVars>>

\* yamlService.doValidation resolves: the callback resumes and publishes.
ValidationResolves(v) ==
    /\ v \in inflight
    /\ inflight' = inflight \ {v}
    /\ diagnostics' = sendDiagnostics(diagnostics, v.doc.uri, DiagnosticsOf(v.doc))
    /\ lastOp' = Op("resolve", v.doc.uri, v.h)
    /\ UNCHANGED <<now, delayMillis, version, nextHandle, timers, pending,
                   unhandled, scheduleErrors, calls, armed, cancelled>>
    /\ UNCHANGED <<closed, yamlVars>>

\* A callback that catches the rejection and validates again.
ValidationRejectsRetry(v) ==
    /\ v \in inflight
    /\ Len(calls) < MaxTimers + MaxTimers
    /\ calls' = Append(calls, [h |-> v.h, doc |-> v.doc,
                               latest |-> version[v.doc.uri]])
    /\ unhandled' = unhandled \cup {[h |-> v.h]}
    /\ lastOp' = Op("reject", v.doc.uri, v.h)
    /\ UNCHANGED <<now, delayMillis, version, nextHandle, timers, pending,
                   inflight, diagnostics, scheduleErrors, armed, cancelled>>
    /\ UNCHANGED <<closed, yamlVars>>

\* yamlService.doValidation rejects: the callback's promise is rejected, nothing
\* handles it, and process.on('unhandledRejection') logs it.
ValidationRejects(v) ==
    /\ v \in inflight
    /\ inflight' = inflight \ {v}
    /\ unhandled' = unhandled \cup {[h |-> v.h]}
    /\ lastOp' = Op("reject", v.doc.uri, v.h)
    /\ UNCHANGED <<now, delayMillis, version, nextHandle, timers, pending,
                   diagnostics, scheduleErrors, calls, armed, cancelled>>
    /\ UNCHANGED <<closed, yamlVars>>

\* Time passes.
Tick ==
    /\ now + TickMs <= MaxTime
    /\ now' = now + TickMs
    /\ lastOp' = Op("tick", "", 0)
    /\ UNCHANGED <<delayMillis, version, nextHandle, timers, pending, inflight,
                   diagnostics, unhandled, scheduleErrors, calls, armed,
                   cancelled>>
    /\ UNCHANGED <<closed, yamlVars>>

Next ==
    \/ \E uri \in Docs : OnDidChangeContent(uri)
    \/ \E uri \in Docs : OnDidClose(uri)
    \/ \E h \in Handles : TimerFires(h)
    \/ \E v \in inflight : ValidationResolves(v)
    \/ \E v \in inflight : ValidationRejects(v)
    \/ Tick

Spec == Init /\ [][Next]_vars

\* The timers fire once they are due, and time passes.
Fairness == WF_vars(Tick) /\ \A h \in Handles : WF_vars(TimerFires(h))

SpecLive == Init /\ [][Next]_vars /\ Fairness

\* A validator constructed with a delay of 0.
InitZero == Init0 /\ delayMillis = 0 /\ mode = "languageClient"

SpecZero == InitZero /\ [][Next]_vars

\* The host's setTimeout may fail (resource exhaustion).
NextArm ==
    \/ Next
    \/ \E uri \in Docs : OnDidChangeContentArmFails(uri)

SpecArm == Init /\ [][NextArm]_vars

----------------------------------------------------------------------------
(* The schema assignment of yaml.ts and the configuration handler of       *)
(* yamlServer.ts.  Neither touches the validator.                          *)

validatorVars == <<now, delayMillis, version, nextHandle, timers, pending,
                   inflight, diagnostics, unhandled, scheduleErrors, calls,
                   armed, cancelled, lastOp, closed>>

\* A removeSchema of the language client that sends its notification before it
\* deletes the entry.
removeSchemaNotifyFirst(key) ==
    /\ Len(schemaLog) < MaxSchemaCalls
    /\ IF mode = "languageClient"
       THEN /\ sent' = onSettingsChanged(sent, schemaMap)
            /\ schemaMap' = mapDelete(schemaMap, key)
       ELSE /\ schemaMap' = mapDelete(schemaMap, key)
            /\ sent' = sent
    /\ schemaLog' = Append(schemaLog, [op |-> "remove", key |-> key])
    /\ UNCHANGED <<mode, configured, received, validatorVars>>

\* assignSchema(path, schema) of the object activateYamlExtension returned;
\* key is path.toString().
assignSchema(key, schema) ==
    /\ Len(schemaLog) < MaxSchemaCalls
    /\ IF mode = "languageClient"
       THEN /\ schemaMap' = mapSet(schemaMap, key, evaluate(schema))
            /\ sent' = onSettingsChanged(sent, schemaMap')
       ELSE /\ schemaMap' = mapSet(schemaMap, key,
                                   applyScheme(AWS_SCHEME, evaluate(schema)))
            /\ sent' = sent
    /\ schemaLog' = Append(schemaLog,
                           [op |-> "assign", key |-> key, schema |-> schema])
    /\ UNCHANGED <<mode, configured, received, validatorVars>>

\* removeSchema(path) of the object activateYamlExtension returned.
removeSchema(key) ==
    /\ Len(schemaLog) < MaxSchemaCalls
    /\ IF mode = "languageClient"
       THEN /\ schemaMap' = mapDelete(schemaMap, key)
            /\ sent' = onSettingsChanged(sent, schemaMap')
       ELSE /\ schemaMap' = mapDelete(schemaMap, key)
            /\ sent' = sent
    /\ schemaLog' = Append(schemaLog, [op |-> "remove", key |-> key])
    /\ UNCHANGED <<mode, configured, received, validatorVars>>

\* connection.onDidChangeConfiguration(change => ...), settings = change.settings
OnDidChangeConfiguration(settings) ==
    /\ configured' = [customTags |-> customTagsOf(settings),
                      schemas |-> schemasOf(settings)]
    /\ received' = {settings}
    /\ UNCHANGED <<mode, schemaMap, sent, schemaLog, validatorVars>>

\* activateYamlExtension has returned either object.
InitYaml == Init0 /\ delayMillis = ValidationDelayMs /\ mode \in Modes

NextYaml ==
    \/ \E key \in PathKeys, schema \in SchemaArgs : assignSchema(key, schema)
    \/ \E key \in PathKeys : removeSchema(key)
    \/ \E settings \in SettingsInputs : OnDidChangeConfiguration(settings)

SpecYaml == InitYaml /\ [][NextYaml]_vars

----------------------------------------------------------------------------
(* Derived views of the state.                                             *)

TimersOf(uri) == {t \in timers : t.doc.uri = uri}

TimerHandles == {t.h : t \in timers}

FiredHandles == {calls[i].h : i \in DOMAIN calls}

CallsOf(uri) == {i \in DOMAIN calls : calls[i].doc.uri = uri}

HandlesOf(uri) == {h \in DOMAIN armed : armed[h].uri = uri}

\* The handle of the latest triggerValidation call for uri.
LastHandle(uri) == CHOOSE h \in HandlesOf(uri) : \A g \in HandlesOf(uri) : g <= h

Count(b) == IF b THEN 1 ELSE 0

----------------------------------------------------------------------------
(* C1: at every moment each identity has at most one armed timer, and the  *)
(* pending map has an entry for an identity exactly when it has an armed   *)
(* timer, the entry holding that timer's handle.                           *)
C1_OnePendingPerIdentity ==
    \A uri \in Docs :
        /\ Cardinality(TimersOf(uri)) <= 1
        /\ (uri \in DOMAIN pending) <=> (TimersOf(uri) # {})
        /\ \A t \in TimersOf(uri) : pending[uri] = t.h

\* An entry is recorded after an earlier timer was superseded or cancelled
\* and another one fired.
C1_Witness ==
    /\ DOMAIN pending # {}
    /\ cancelled # {}
    /\ calls # << >>

----------------------------------------------------------------------------
(* C2: a burst of triggerValidation calls for one identity, not cleaned,   *)
(* invokes the callback exactly once and with the snapshot of the last     *)
(* call: no cancelled timer fires, every invocation validates the latest   *)
(* snapshot triggered for its document (the one its own timer was armed    *)
(* for), successive invocations of a document validate newer snapshots,    *)
(* and once the last timer of a document has fired its latest snapshot has *)
(* been validated exactly once.                                            *)
C2_BurstValidatesLastSnapshotOnce ==
    /\ \A i \in DOMAIN calls :
        /\ calls[i].h \notin cancelled
        /\ calls[i].doc.version = calls[i].latest
        /\ calls[i].doc = armed[calls[i].h]
        /\ \A j \in DOMAIN calls :
              (i < j /\ calls[j].doc.uri = calls[i].doc.uri)
                  => calls[i].doc.version < calls[j].doc.version
    /\ \A uri \in Docs :
        (/\ HandlesOf(uri) # {}
         /\ uri \notin DOMAIN pending
         /\ LastHandle(uri) \notin cancelled)
            => Cardinality({i \in CallsOf(uri) :
                              calls[i].doc = Snapshot(uri, version[uri])}) = 1

\* A document was triggered twice and never closed, and its only invocation
\* validated the second snapshot.
C2_Witness ==
    \E uri \in Docs :
        /\ version[uri] = 2
        /\ diagnostics[uri] = Unpublished
        /\ Cardinality(CallsOf(uri)) = 1
        /\ \A i \in CallsOf(uri) : calls[i].doc = Snapshot(uri, 2)

----------------------------------------------------------------------------
(* C3: a close event leaves its document without an armed timer and        *)
(* without a pending entry and invokes nothing, and a timer that was       *)
(* cancelled never fires.                                                  *)
C3_CleanedTimerNeverFires ==
    /\ [][lastOp'.op = "close" =>
            /\ {t \in timers' : t.doc.uri = lastOp'.uri} = {}
            /\ lastOp'.uri \notin DOMAIN pending'
            /\ calls' = calls]_vars
    /\ [](\A h \in cancelled : h \notin FiredHandles /\ h \notin TimerHandles)

\* The last validation scheduled for a document was cancelled, every delay
\* has elapsed, and the callback was never invoked for the document.
C3_Witness ==
    \E uri \in Docs :
        /\ HandlesOf(uri) # {}
        /\ LastHandle(uri) \in cancelled
        /\ now = MaxTime
        /\ CallsOf(uri) = {}

----------------------------------------------------------------------------
(* C4: a scheduled validation is at every moment in exactly one of three   *)
(* states, armed, fired or cancelled, it fires at most once, and with      *)
(* timers that fire when due it does not stay armed for ever.              *)
C4_FiresOnceOrIsCancelled ==
    /\ [](\A h \in DOMAIN armed :
            /\ Count(h \in TimerHandles) + Count(h \in FiredHandles)
                  + Count(h \in cancelled) = 1
            /\ Cardinality({i \in DOMAIN calls : calls[i].h = h}) <= 1)
    /\ \A h \in Handles :
            (h \in TimerHandles) ~> (h \in FiredHandles \/ h \in cancelled)

\* Every scheduled validation has ended, one by firing and one by being
\* cancelled.
C4_Witness ==
    /\ timers = {}
    /\ FiredHandles # {}
    /\ cancelled # {}

----------------------------------------------------------------------------
(* C5: a change or close event of one document leaves the timer and the    *)
(* pending entry of every other document as they were, and every           *)
(* invocation validates the snapshot its own document was triggered with.  *)
C5_IdentitiesIndependent ==
    /\ [][lastOp'.op \in {"change", "close"} =>
            \A w \in Docs \ {lastOp'.uri} :
                /\ {t \in timers' : t.doc.uri = w} = TimersOf(w)
                /\ (w \in DOMAIN pending') <=> (w \in DOMAIN pending)
                /\ w \in DOMAIN pending => pending'[w] = pending[w]]_vars
    /\ [](\A i \in DOMAIN calls :
            /\ calls[i].h \in HandlesOf(calls[i].doc.uri)
            /\ calls[i].doc = armed[calls[i].h])

\* Two documents were triggered one after the other, interleaved, and the
\* callback was invoked for both, each with its own snapshot.
C5_Witness ==
    /\ Cardinality({armed[h].uri : h \in DOMAIN armed}) = 2
    /\ \A uri \in Docs :
          \E i \in CallsOf(uri) : calls[i].doc = Snapshot(uri, version[uri])
    /\ \E i, j \in DOMAIN calls : calls[i].h < calls[j].h /\ j < i

----------------------------------------------------------------------------
(* C6: no invocation of the validation callback for a document starts      *)
(* while an earlier invocation for the same document is still awaiting the *)
(* language service.                                                       *)
C6_ValidationsNeverOverlap ==
    \A v, w \in inflight : v.doc.uri = w.doc.uri => v = w

----------------------------------------------------------------------------
(* C7: when the callback fails, the turn that fails invokes nothing, arms  *)
(* nothing and leaves the pending map alone, the fired entry is gone, the  *)
(* failed validation is never armed or invoked again, and every later      *)
(* change event installs its timer and entry as usual.                     *)
C7_FailedCallbackNotRetried ==
    /\ [][lastOp'.op = "reject" =>
            /\ calls' = calls
            /\ timers' = timers
            /\ pending' = pending
            /\ \A u \in DOMAIN pending' : pending'[u] # lastOp'.h
            /\ \A v \in inflight' : v.h # lastOp'.h]_vars
    /\ [][lastOp'.op = "change" =>
            /\ lastOp'.uri \in DOMAIN pending'
            /\ pending'[lastOp'.uri] = lastOp'.h
            /\ \E t \in timers' :
                  /\ t.h = lastOp'.h
                  /\ t.doc = Snapshot(lastOp'.uri, version'[lastOp'.uri])]_vars
    /\ [](\A e \in unhandled :
            /\ e.h \notin TimerHandles
            /\ \A v \in inflight : v.h # e.h
            /\ Cardinality({i \in DOMAIN calls : calls[i].h = e.h}) = 1)

\* A validation of a document has failed, and the change event that follows
\* for the same document has armed its timer and recorded its entry.
C7_Witness ==
    \E e \in unhandled :
        /\ lastOp.op = "change"
        /\ lastOp.uri = armed[e.h].uri
        /\ lastOp.h > e.h
        /\ pending[lastOp.uri] = lastOp.h
        /\ \E t \in timers : t.h = lastOp.h /\ t.due = now + delayMillis

----------------------------------------------------------------------------
(* C8: a close event for a document without a pending entry changes neither*)
(* the pending map nor any timer, and raises no error.                     *)
C8_CleanWithoutEntryIsNoOp ==
    [][(lastOp'.op = "close" /\ lastOp'.uri \notin DOMAIN pending) =>
            /\ pending' = pending
            /\ timers' = timers
            /\ cancelled' = cancelled
            /\ unhandled' = unhandled
            /\ scheduleErrors' = scheduleErrors]_vars

\* A close event found no entry, after an earlier clean had cancelled the last
\* validation of the same document, while another document's timer is armed.
C8_Witness ==
    /\ lastOp.op = "close"
    /\ lastOp.h = 0
    /\ HandlesOf(lastOp.uri) # {}
    /\ LastHandle(lastOp.uri) \in cancelled
    /\ timers # {}

----------------------------------------------------------------------------
(* C9: with a delay of 0 a change event still only arms a timer, due at    *)
(* once: the callback is not invoked in the turn of the event, and a       *)
(* second change event before the timer's turn supersedes it, so that      *)
(* every invocation validates the latest snapshot.                         *)
C9_ZeroDelayStillDeferred ==
    /\ [](delayMillis = 0)
    /\ [][lastOp'.op = "change" =>
            /\ calls' = calls
            /\ inflight' = inflight
            /\ \E t \in timers' : t.h = lastOp'.h /\ t.due = now']_vars
    /\ [](\A i \in DOMAIN calls :
            /\ calls[i].doc.version = calls[i].latest
            /\ calls[i].h \notin cancelled)

\* Two change events of one document at the same instant, with delay 0, were
\* followed by a single invocation, for the second snapshot.
C9_Witness ==
    \E uri \in Docs :
        /\ delayMillis = 0
        /\ now = 0
        /\ version[uri] = 2
        /\ Cardinality(CallsOf(uri)) = 1
        /\ \A i \in CallsOf(uri) : calls[i].doc = Snapshot(uri, 2)

----------------------------------------------------------------------------
(* C10: when arming the timer fails, the error is surfaced in the turn of  *)
(* the call, which arms and invokes nothing, and the snapshot of the       *)
(* failed call is never armed or validated later.                          *)
C10_ScheduleErrorNotRetried ==
    /\ [][lastOp'.op = "armfail" =>
            /\ \E e \in scheduleErrors' \ scheduleErrors : e.h = lastOp'.h
            /\ calls' = calls
            /\ inflight' = inflight
            /\ {t \in timers' : t.doc.uri = lastOp'.uri} = {}]_vars
    /\ [](\A e \in scheduleErrors :
            /\ e.h \notin TimerHandles
            /\ e.h \notin FiredHandles
            /\ \A t \in timers : t.doc # e.doc
            /\ \A i \in DOMAIN calls : calls[i].doc # e.doc)

\* A call failed to arm its timer, every delay has elapsed, and the callback
\* was never invoked for that document.
C10_Witness ==
    \E e \in scheduleErrors :
        /\ now = MaxTime
        /\ CallsOf(e.doc.uri) = {}
        /\ version[e.doc.uri] = e.doc.version

----------------------------------------------------------------------------
(* C11: from the close event of a document until its next change event the *)
(* diagnostics last published for it are the empty list.                   *)
C11_ClosedDocumentStaysEmpty ==
    \A uri \in closed : diagnostics[uri] = EmptyDiagnostics

----------------------------------------------------------------------------
(* C12: when a document is open, has no armed timer and no validation in   *)
(* flight, and the validation of its latest snapshot was invoked and did   *)
(* not fail, the diagnostics last published for it are those of its latest *)
(* snapshot.                                                               *)
C12_LatestSnapshotPublishedLast ==
    \A uri \in Docs :
        (/\ uri \notin closed
         /\ TimersOf(uri) = {}
         /\ \A v \in inflight : v.doc.uri # uri
         /\ \E i \in CallsOf(uri) :
               /\ calls[i].doc = Snapshot(uri, version[uri])
               /\ \A e \in unhandled : e.h # calls[i].h)
            => diagnostics[uri] = DiagnosticsOf(Snapshot(uri, version[uri]))

----------------------------------------------------------------------------
(* Views of the history of assignSchema and removeSchema calls.            *)

\* The calls made for a path, by their position in the history.
SchemaCallsOf(key) == {i \in DOMAIN schemaLog : schemaLog[i].key = key}

\* The call made last for a path that has one.
LastSchemaCall(key) ==
    schemaLog[CHOOSE i \in SchemaCallsOf(key) : \A j \in SchemaCallsOf(key) : j <= i]

\* The schema a path is expected to have: none when it was never assigned or
\* was removed last, else the schema assigned last, under the scheme of the
\* mode.
ExpectedSchema(key) ==
    IF SchemaCallsOf(key) = {} THEN {}
    ELSE IF LastSchemaCall(key).op = "remove" THEN {}
    ELSE IF mode = "yamlExtension"
         THEN {[scheme |-> AWS_SCHEME, path |-> LastSchemaCall(key).schema.uri.path]}
         ELSE {LastSchemaCall(key).schema.uri}

\* The configuration notification sent last.
LastSent == sent[Len(sent)]

\* The schema settings of a notification whose fileMatch is exactly the path.
SettingsFor(n, key) == {i \in DOMAIN n : n[i].fileMatch = <<key>>}

----------------------------------------------------------------------------
(* C13: in language-client mode every assignSchema and removeSchema call   *)
(* has sent one configuration notification, and the notification sent last *)
(* lists exactly one schema setting for each path currently in the schema  *)
(* map (fileMatch the path alone, uri 'file://' and the encoded file       *)
(* system path of the stored schema), and none for any other path.         *)
C13_NotificationMirrorsSchemaMap ==
    mode = "languageClient" =>
        /\ Len(sent) = Len(schemaLog)
        /\ Len(sent) > 0 =>
              /\ \A key \in PathKeys :
                    IF getSchema(key) = {}
                    THEN SettingsFor(LastSent, key) = {}
                    ELSE /\ Cardinality(SettingsFor(LastSent, key)) = 1
                         /\ \A i \in SettingsFor(LastSent, key) :
                               \A u \in getSchema(key) :
                                   LastSent[i].uri = fileUri(u)
              /\ \A i \in DOMAIN LastSent :
                    \E key \in PathKeys : i \in SettingsFor(LastSent, key)
              /\ \A key \in PathKeys :
                    (SchemaCallsOf(key) # {} /\ LastSchemaCall(key).op = "remove")
                        => SettingsFor(LastSent, key) = {}

\* Two paths were assigned a schema, one of them with a space in its path, and
\* the other was then removed: the last notification lists the one that stays.
C13_Witness ==
    /\ mode = "languageClient"
    /\ Len(schemaLog) = MaxSchemaCalls
    /\ schemaLog[Len(schemaLog)].op = "remove"
    /\ Len(sent[Len(sent) - 1]) = 2
    /\ Len(LastSent) = 1
    /\ \E i \in DOMAIN LastSent[1].uri : LastSent[1].uri[i] = "%"

----------------------------------------------------------------------------
(* C14: getSchema of a path returns the schema assigned to it last (with   *)
(* its scheme replaced by AWS_SCHEME in yaml-extension mode, unchanged in  *)
(* language-client mode) and nothing when the path was never assigned or   *)
(* was removed last; calls for other paths do not change it.               *)
C14_GetSchemaReturnsLastAssigned ==
    \A key \in PathKeys : getSchema(key) = ExpectedSchema(key)

\* In yaml-extension mode a path was assigned an https schema and keeps it
\* under the aws scheme, after another path was assigned and removed.
C14_Witness ==
    /\ mode = "yamlExtension"
    /\ Len(schemaLog) = MaxSchemaCalls
    /\ \E key \in PathKeys, other \in PathKeys :
          /\ key # other
          /\ schemaLog[1].op = "assign" /\ schemaLog[1].key = key
          /\ schemaLog[1].schema.uri.scheme = "https"
          /\ schemaLog[2].op = "assign" /\ schemaLog[2].key = other
          /\ schemaLog[Len(schemaLog)].op = "remove"
          /\ schemaLog[Len(schemaLog)].key = other
          /\ getSchema(key) = {[scheme |-> AWS_SCHEME, path |-> schemaLog[1].schema.uri.path]}
          /\ getSchema(other) = {}

----------------------------------------------------------------------------
(* C15: after a configuration change the language service is configured    *)
(* with the customTags and the schemas of settings.aws.yaml, each taken as *)
(* the empty list when it is absent.                                       *)
C15_ConfiguredWithSuppliedSettings ==
    \A settings \in received :
        /\ configured.customTags =
              (IF settings.customTags = Absent THEN {<< >>} ELSE settings.customTags)
        /\ configured.schemas =
              (IF settings.schemas = Absent THEN {<< >>} ELSE settings.schemas)

====
